---- MODULE Spec2Model ----
(***************************************************************************)
(* Model of the sequential Wasserstein fairness adjusters of equipy:       *)
(*   equipy/fairness/_base.py        BaseHelper                            *)
(*   equipy/fairness/_wasserstein.py Wasserstein, MultiWasserStein         *)
(*   equipy/utils/checkers.py        the input checks                      *)
(*   equipy/metrics/_fairness_metrics.py  EQF                              *)
(*                                                                         *)
(* One Wasserstein instance (w) and one MultiWasserStein instance (mw)     *)
(* are driven by a caller.  A call is one action that runs the whole       *)
(* method and leaves its arguments, the checks it executed, and its        *)
(* outcome (a return value or the exception that left it) in `call`; the   *)
(* caller then takes the result (Return) and is free to call again.        *)
(*                                                                         *)
(* Numbers.  A number (label, weight, quantile, fair value) is written as  *)
(* the exact ratio <<numerator, denominator>> in lowest terms, or, when it *)
(* is a float64 that is no ratio of a small integer and a small power of   *)
(* two, as <<sign, significand, exponent>>.  EQF computes in float64 with  *)
(* round-to-nearest-even, as np.linspace and the interpolater do.  The     *)
(* sums, products and comparisons of the calibration pipeline (RAdd, RMul, *)
(* RLe, ..) are exact and are defined on ratios only.  Input labels are    *)
(* multiples of Grain and a draw of np.random.uniform is a                 *)
(* nondeterministic offset in Jitter, so a draw is small against the       *)
(* distance of two labels.                                                 *)
(*                                                                         *)
(* Python calls.  A call binds only when the number of arguments matches   *)
(* the callee's signature (BindsMethod, BindsFunction); otherwise Python   *)
(* raises TypeError at the call site and the rest of the method does not   *)
(* run.  The arities below are read off the def lines of the source.       *)
(***************************************************************************)
EXTENDS Integers, Sequences, FiniteSets, TLC

\* ---- bounds of the model ------------------------------------------------
MaxLen == 2      \* longest label / attribute vector (observations)
MaxMod == 3      \* modalities are 1..MaxMod
MaxLabel == 1    \* label steps are 0..MaxLabel
MaxCols == 2     \* most attribute columns of a matrix
EpsDen == 2      \* an epsilon is k/EpsDen for k in -1..EpsDen+1
Grain == 4       \* jitter units per label step
MaxSample == 6   \* a sample handed to EQF has 2..MaxSample values
MaxStep == 2     \* neighbours of a sample are 0..MaxStep apart

\* ---- signatures read off the source --------------------------------------
\* def _get_mod(self, x_ssa)
get_mod_params == 2
\* def _get_loc(self, x_ssa)
get_loc_params == 2
\* def _get_weights(self, x_ssa)
get_weights_params == 2
\* def _estimate_ecdf_eqf(self, y, x_ssa, sigma)
estimate_ecdf_eqf_params == 4
\* def _check_epsilon_size(self, epsilon, x_sa_test)
check_epsilon_size_params == 3

\* obj.method(a1..ak) passes obj as well: the method must declare k+1 names.
BindsMethod(params, explicit_args) == params = explicit_args + 1
\* function(a1..ak): the function must declare k names.
BindsFunction(params, args) == params = args

\* ---- rationals -----------------------------------------------------------
RECURSIVE Gcd(_, _)
Gcd(a, b) == IF b = 0 THEN a ELSE Gcd(b, a % b)

Abs(a) == IF a < 0 THEN 0 - a ELSE a

\* lowest terms, positive denominator
Rat(n, d) ==
    LET g == Gcd(Abs(n), Abs(d))
        s == IF d < 0 THEN 0 - 1 ELSE 1
    IN  <<(s * n) \div g, (s * d) \div g>>

RInt(i) == <<i, 1>>

\* ---- float64: the IEEE 754 binary64 arithmetic of numpy -------------------
\* np(f, a) is the operation f of this section on its operands a = <<a1, ..>>.
\* The operations are defined one by one below and reach each other through
\* np.
RECURSIVE np(_, _)

\* A natural number of any size is the sequence of its digits in base Limb,
\* lowest digit first, without a leading zero digit; <<>> is 0.
Limb == 2^15

BTrim(a) ==
    IF a = <<>> THEN <<>>
    ELSE IF a[Len(a)] = 0 THEN np("BTrim", <<SubSeq(a, 1, Len(a) - 1)>>)
    ELSE a

BFromInt(n) ==
    IF n = 0 THEN <<>> ELSE <<n % Limb>> \o np("BFromInt", <<n \div Limb>>)

BDigit(a, i) == IF i <= Len(a) THEN a[i] ELSE 0

\* -1, 0 or 1 as a < b, a = b or a > b, on the digits from i downwards
BCmp(a, b, i) ==
    IF i = 0 THEN 0
    ELSE IF BDigit(a, i) < BDigit(b, i) THEN 0 - 1
    ELSE IF BDigit(a, i) > BDigit(b, i) THEN 1
    ELSE np("BCmp", <<a, b, i - 1>>)

\* a + b + carry on the digits from i upwards
BAdd(a, b, i, carry) ==
    IF i > Len(a) /\ i > Len(b)
    THEN IF carry = 0 THEN <<>> ELSE <<carry>>
    ELSE LET s == BDigit(a, i) + BDigit(b, i) + carry
         IN  <<s % Limb>> \o np("BAdd", <<a, b, i + 1, s \div Limb>>)

\* a - b - borrow on the digits from i upwards, for a >= b
BSub(a, b, i, borrow) ==
    IF i > Len(a) THEN <<>>
    ELSE LET s == a[i] - BDigit(b, i) - borrow
         IN  <<s % Limb>>
             \o np("BSub", <<a, b, i + 1, IF s < 0 THEN 1 ELSE 0>>)

\* a * k + carry on the digits from i upwards, for a digit k
BMulInt(a, k, i, carry) ==
    IF i > Len(a) THEN IF carry = 0 THEN <<>> ELSE <<carry>>
    ELSE LET s == a[i] * k + carry
         IN  <<s % Limb>> \o np("BMulInt", <<a, k, i + 1, s \div Limb>>)

\* a * (the digits of b from j upwards)
BMul(a, b, j) ==
    IF j > Len(b) THEN <<>>
    ELSE np("BAdd", <<np("BMulInt", <<a, b[j], 1, 0>>),
                      <<0>> \o np("BMul", <<a, b, j + 1>>), 1, 0>>)

\* a * 2^k
BShl(a, k) ==
    np("BTrim", <<[i \in 1..(k \div 15) |-> 0]
                  \o np("BMulInt", <<a, 2^(k % 15), 1, 0>>)>>)

\* floor(a / 2^k)
BShr(a, k) ==
    np("BTrim", <<[i \in 1..(Len(a) - k \div 15) |->
                     (a[i + k \div 15] \div 2^(k % 15))
                     + (BDigit(a, i + k \div 15 + 1) % 2^(k % 15))
                       * 2^(15 - (k % 15))]>>)

RECURSIVE IntBitLen(_)
IntBitLen(n) == IF n = 0 THEN 0 ELSE 1 + IntBitLen(n \div 2)

\* the number of binary digits of a
BBitLen(a) ==
    IF a = <<>> THEN 0 ELSE 15 * (Len(a) - 1) + IntBitLen(a[Len(a)])

\* the binary digit of weight 2^i of a
BBit(a, i) == (BDigit(a, i \div 15 + 1) \div 2^(i % 15)) % 2

\* the number of binary zeros at the low end of a > 0
BTrailingZeros(a) ==
    CHOOSE z \in 0..BBitLen(a) :
        BBit(a, z) = 1 /\ \A i \in 0..(z - 1) : BBit(a, i) = 0

\* the largest digit d <= guess with b * d <= r
BFit(b, r, guess) ==
    IF np("BCmp", <<np("BMulInt", <<b, guess, 1, 0>>), r, Len(b) + 1>>) > 0
    THEN np("BFit", <<b, r, guess - 1>>)
    ELSE guess

\* the digit floor(r / b) for r < b * Limb, the top digit of b being at
\* least Limb / 2: guessed from the top digits of r and b
BQuotDigit(b, r) ==
    IF np("BCmp", <<r, b, Len(b) + 1>>) < 0 THEN 0
    ELSE LET n == Len(b)
             guess == (BDigit(r, n + 1) * Limb + r[n]) \div b[n]
         IN  np("BFit", <<b, r, IF guess >= Limb THEN Limb - 1 ELSE guess>>)

\* long division of the digits a[1..i] below the remainder r < b, the top
\* digit of b being at least Limb / 2 and q the digits of the quotient so
\* far: <<quotient, remainder>>
BDivMod(a, b, i, q, r) ==
    IF i = 0 THEN <<q, r>>
    ELSE LET r1 == np("BTrim", <<(<<a[i]>> \o r)>>)
             d == np("BQuotDigit", <<b, r1>>)
         IN  np("BDivMod",
                <<a, b, i - 1, <<d>> \o q,
                  np("BTrim", <<np("BSub", <<r1, np("BMulInt", <<b, d, 1, 0>>),
                                            1, 0>>)>>)>>)

\* A float64 that is a ratio n/d of a small integer n and a small power of
\* two d is written as that ratio <<n, d>>; any other float64 is written
\* <<sign, significand, exponent>> with an odd significand, and is
\* (-1)^sign * significand * 2^exponent.
float64_of(sign, odd, exponent) ==
    IF exponent >= 0 /\ BBitLen(odd) + exponent <= 14
    THEN <<(1 - 2 * sign) * odd[1] * 2^exponent, 1>>
    ELSE IF exponent < 0 /\ exponent >= 0 - 6 /\ BBitLen(odd) <= 14
    THEN <<(1 - 2 * sign) * odd[1], 2^(0 - exponent)>>
    ELSE <<sign, odd, exponent>>

\* (-1)^sign * N * 2^exponent for N > 0 of 53 binary digits or less and z
\* zeros at its low end
float64_odd(sign, N, exponent, z) ==
    float64_of(sign, np("BShr", <<N, z>>), exponent + z)

\* the float64 nearest to (-1)^sign * (N + rest) * 2^exponent, where rest is
\* 0 or (more = TRUE) some fraction strictly between 0 and 1, and d > 0 is
\* the number of binary digits N has above 53: to the nearest, ties to the
\* even significand
float64_round(sign, N, exponent, more, d) ==
    np("float64",
       <<sign,
         np("BAdd", <<np("BShr", <<N, d>>), <<>>, 1,
                      IF /\ BBit(N, d - 1) = 1
                         /\ \/ more
                            \/ \E i \in 0..(d - 2) : BBit(N, i) = 1
                            \/ BBit(N, d) = 1
                      THEN 1 ELSE 0>>),
         exponent + d, FALSE>>)

\* the float64 nearest to (-1)^sign * (N + rest) * 2^exponent: N itself when
\* it has 53 binary digits or less and rest is 0
float64(sign, N, exponent, more) ==
    IF N = <<>> THEN <<0, 1>>
    ELSE IF BBitLen(N) <= 53
    THEN np("float64_odd", <<sign, N, exponent, BTrailingZeros(N)>>)
    ELSE np("float64_round", <<sign, N, exponent, more, BBitLen(N) - 53>>)

\* <<sign, significand, exponent>> of the float64 of a number: of a ratio
\* n/d that is no float64, the float64 of the Python division n / d
float64_parts(p) ==
    IF Len(p) = 3 THEN p
    ELSE IF p[2] = 2^(IntBitLen(p[2]) - 1)
    THEN <<IF p[1] < 0 THEN 1 ELSE 0, np("BFromInt", <<Abs(p[1])>>),
           1 - IntBitLen(p[2])>>
    ELSE np("float64_parts",
            <<np("float64_truediv", <<RInt(p[1]), RInt(p[2])>>)>>)

\* the float64 of a number: float(p)
float(p) ==
    LET a == np("float64_parts", <<p>>)
    IN  np("float64", <<a[1], a[2], a[3], FALSE>>)

\* x * y on float64
float64_mul(x, y) ==
    LET a == np("float64_parts", <<x>>)
        b == np("float64_parts", <<y>>)
    IN  np("float64", <<(a[1] + b[1]) % 2,
                        np("BTrim", <<np("BMul", <<a[2], b[2], 1>>)>>),
                        a[3] + b[3], FALSE>>)

\* (-1)^sign * (n / m) * 2^exponent for n of 56 binary digits or more above
\* those of m, the top digit of m being at least Limb / 2
float64_div(sign, n, m, exponent) ==
    LET q == np("BDivMod", <<n, m, Len(n) - Len(m) + 1, <<>>,
                             SubSeq(n, Len(n) - Len(m) + 2, Len(n))>>)
    IN  np("float64", <<sign, np("BTrim", <<q[1]>>), exponent, q[2] # <<>>>>)

\* x / y on float64, y # 0
float64_truediv(x, y) ==
    LET a == np("float64_parts", <<x>>)
        b == np("float64_parts", <<y>>)
        k == 56 + BBitLen(b[2]) - BBitLen(a[2])
        s == 15 - IntBitLen(b[2][Len(b[2])])
    IN  IF a[2] = <<>> THEN <<0, 1>>
        ELSE np("float64_div", <<(a[1] + b[1]) % 2, np("BShl", <<a[2], k + s>>),
                                 np("BShl", <<b[2], s>>), a[3] - b[3] - k>>)

\* (-1)^sa * A * 2^e + (-1)^sb * B * 2^e on float64
float64_sum(sa, A, sb, B, e) ==
    IF sa = sb THEN np("float64", <<sa, np("BAdd", <<A, B, 1, 0>>), e, FALSE>>)
    ELSE IF np("BCmp", <<A, B, Len(A) + Len(B)>>) >= 0
    THEN np("float64", <<sa, np("BTrim", <<np("BSub", <<A, B, 1, 0>>)>>), e, FALSE>>)
    ELSE np("float64", <<sb, np("BTrim", <<np("BSub", <<B, A, 1, 0>>)>>), e, FALSE>>)

\* x + y on float64
float64_add(x, y) ==
    LET a == np("float64_parts", <<x>>)
        b == np("float64_parts", <<y>>)
        e == IF a[3] < b[3] THEN a[3] ELSE b[3]
    IN  np("float64_sum", <<a[1], np("BShl", <<a[2], a[3] - e>>),
                            b[1], np("BShl", <<b[2], b[3] - e>>), e>>)

\* -x on float64
float64_neg(x) ==
    IF Len(x) = 3 THEN <<1 - x[1], x[2], x[3]>> ELSE <<0 - x[1], x[2]>>

\* x < 0 on float64
float64_negative(x) == IF Len(x) = 3 THEN x[1] = 1 ELSE x[1] < 0

\* x - y and x <= y on float64
float64_sub(x, y) == np("float64_add", <<x, float64_neg(y)>>)
float64_le(x, y) == ~float64_negative(np("float64_add", <<y, float64_neg(x)>>))

\* np.linspace(0, 1, num): knot i (from 0) is i * step for the float64
\* step = 1.0 / (num - 1), and the last knot is set to 1.0
np_linspace(num) ==
    [i \in 1..num |->
        IF num = 1 THEN RInt(0)
        ELSE IF i = num THEN RInt(1)
        ELSE np("float64_mul",
                <<RInt(i - 1),
                  np("float64_truediv", <<RInt(1), RInt(num - 1)>>)>>)]

\* np.interp(x, xp, fp) for xp[1] <= x <= xp[n], which interp1d evaluates
\* for float64 data: the value at the last knot j that is <= x, moved along
\* the slope to the next knot unless x is that knot
np_interp(x, xp, fp) ==
    LET n == Len(fp)
        j == CHOOSE j \in 1..n :
                 \A k \in 1..n : np("float64_le", <<xp[k], x>>) <=> k <= j
        slope == np("float64_truediv",
                    <<np("float64_sub", <<fp[j + 1], fp[j]>>),
                      np("float64_sub", <<xp[j + 1], xp[j]>>)>>)
    IN  IF j = n \/ xp[j] = x THEN fp[j]
        ELSE np("float64_add",
                <<np("float64_mul", <<slope, np("float64_sub", <<x, xp[j]>>)>>),
                  fp[j]>>)

\* interp1d(np.linspace(0, 1, num = n), sorted_data)(value_) on the float64
\* of the data and of value_
interp1d(sorted_data, value_) ==
    np("np_interp",
       <<np("float", <<value_>>),
         np("np_linspace", <<Len(sorted_data)>>),
         [i \in 1..Len(sorted_data) |-> np("float", <<sorted_data[i]>>)]>>)

np(f, a) ==
    CASE Len(a) = 1 /\ f = "BTrim" -> BTrim(a[1])
      [] Len(a) = 1 /\ f = "BFromInt" -> BFromInt(a[1])
      [] Len(a) = 3 /\ f = "BCmp" -> BCmp(a[1], a[2], a[3])
      [] Len(a) = 4 /\ f = "BAdd" -> BAdd(a[1], a[2], a[3], a[4])
      [] Len(a) = 4 /\ f = "BSub" -> BSub(a[1], a[2], a[3], a[4])
      [] Len(a) = 4 /\ f = "BMulInt" -> BMulInt(a[1], a[2], a[3], a[4])
      [] Len(a) = 3 /\ f = "BMul" -> BMul(a[1], a[2], a[3])
      [] Len(a) = 2 /\ f = "BShl" -> BShl(a[1], a[2])
      [] Len(a) = 2 /\ f = "BShr" -> BShr(a[1], a[2])
      [] Len(a) = 3 /\ f = "BFit" -> BFit(a[1], a[2], a[3])
      [] Len(a) = 2 /\ f = "BQuotDigit" -> BQuotDigit(a[1], a[2])
      [] Len(a) = 5 /\ f = "BDivMod" -> BDivMod(a[1], a[2], a[3], a[4], a[5])
      [] Len(a) = 4 /\ f = "float64_odd" -> float64_odd(a[1], a[2], a[3], a[4])
      [] Len(a) = 5 /\ f = "float64_round" ->
             float64_round(a[1], a[2], a[3], a[4], a[5])
      [] Len(a) = 4 /\ f = "float64" -> float64(a[1], a[2], a[3], a[4])
      [] Len(a) = 1 /\ f = "float64_parts" -> float64_parts(a[1])
      [] Len(a) = 1 /\ f = "float" -> float(a[1])
      [] Len(a) = 2 /\ f = "float64_mul" -> float64_mul(a[1], a[2])
      [] Len(a) = 4 /\ f = "float64_div" -> float64_div(a[1], a[2], a[3], a[4])
      [] Len(a) = 2 /\ f = "float64_truediv" -> float64_truediv(a[1], a[2])
      [] Len(a) = 5 /\ f = "float64_sum" ->
             float64_sum(a[1], a[2], a[3], a[4], a[5])
      [] Len(a) = 2 /\ f = "float64_add" -> float64_add(a[1], a[2])
      [] Len(a) = 2 /\ f = "float64_sub" -> float64_sub(a[1], a[2])
      [] Len(a) = 2 /\ f = "float64_le" -> float64_le(a[1], a[2])
      [] Len(a) = 1 /\ f = "np_linspace" -> np_linspace(a[1])
      [] Len(a) = 3 /\ f = "np_interp" -> np_interp(a[1], a[2], a[3])
      [] Len(a) = 2 /\ f = "interp1d" -> interp1d(a[1], a[2])

\* ---- arithmetic on numbers ------------------------------------------------
\* exact, on two ratios
RAdd(p, q) == Rat(p[1] * q[2] + q[1] * p[2], p[2] * q[2])
RSub(p, q) == Rat(p[1] * q[2] - q[1] * p[2], p[2] * q[2])
RMul(p, q) == Rat(p[1] * q[1], p[2] * q[2])
RLe(p, q) == p[1] * q[2] <= q[1] * p[2]
RLt(p, q) == p[1] * q[2] < q[1] * p[2]
RFloor(p) == p[1] \div p[2]
RAbs(p) == <<Abs(p[1]), p[2]>>

RECURSIVE RSum(_, _)
\* sum of f[k] over the finite set S
RSum(f, S) ==
    IF S = {} THEN RInt(0)
    ELSE LET k == CHOOSE k \in S : TRUE IN RAdd(f[k], RSum(f, S \ {k}))

\* ---- input domains -------------------------------------------------------
Modalities == 1..MaxMod
LabelVals == {RInt(Grain * k) : k \in 0..MaxLabel}
Jitter == {0 - 1, 0, 1}
EpsVals == (0 - 1)..(EpsDen + 1)

SeqsUpTo(S, n) == UNION {[1..k -> S] : k \in 0..n}

\* A label argument: a Python list (arr = FALSE), or a numpy array whose
\* elements are floats (flt = TRUE) or integers (flt = FALSE).
LabelArgs ==
    {[arr |-> FALSE, flt |-> TRUE, v |-> <<>>]}
    \cup {[arr |-> TRUE, flt |-> f, v |-> s] :
            f \in BOOLEAN, s \in SeqsUpTo(LabelVals, MaxLen)}

\* A single-attribute argument: a Python list, or a 1-D numpy array.
AttrArgs ==
    {[arr |-> FALSE, v |-> <<>>]}
    \cup {[arr |-> TRUE, v |-> s] : s \in SeqsUpTo(Modalities, MaxLen)}

\* ---- utils/checkers.py ---------------------------------------------------
\* a check that leaves out the test of the labels' type
_check_shape_any_label(y, x_ssa) ==
    IF ~x_ssa.arr THEN "ShapeError"
    ELSE IF ~y.arr THEN "ShapeError"
    ELSE IF Len(x_ssa.v) # Len(y.v) THEN "ShapeError"
    ELSE "ok"

\* _check_shape: the first failing test decides; "ok" when none fails.
_check_shape(y, x_ssa) ==
    IF ~x_ssa.arr THEN "ShapeError"
    ELSE IF ~y.arr THEN "ShapeError"
    ELSE IF Len(x_ssa.v) # Len(y.v) THEN "ShapeError"
    ELSE IF \E i \in DOMAIN y.v : ~y.flt THEN "ShapeError"
    ELSE "ok"

\* _check_mod: every test modality is a calibration modality.
_check_mod(sens_val_calib, sens_val_test) ==
    IF \A elem \in sens_val_test : elem \in sens_val_calib
    THEN "ok" ELSE "UnseenModalityError"

\* a check that also turns the endpoints 0 and 1 away
_check_epsilon_strict(e) ==
    IF e <= 0 \/ e >= EpsDen THEN "RangeError" ELSE "ok"

\* _check_epsilon on epsilon = e/EpsDen: raise unless 0 <= epsilon <= 1.
_check_epsilon(e) ==
    IF e < 0 \/ e > EpsDen THEN "RangeError" ELSE "ok"

\* ---- fairness/_base.py ---------------------------------------------------
\* _get_mod: list(set(x_ssa))
_get_mod(x_ssa) == {x_ssa[i] : i \in DOMAIN x_ssa}

\* _get_loc: modality -> indices where it occurs
_get_loc(x_ssa) ==
    [mod \in _get_mod(x_ssa) |-> {i \in DOMAIN x_ssa : x_ssa[i] = mod}]

\* weights that divide by the number of modalities instead of len(x_ssa)
_get_weights_per_modality(x_ssa) ==
    LET sens_loc == _get_loc(x_ssa)
    IN  [mod \in _get_mod(x_ssa) |->
            Rat(Cardinality(sens_loc[mod]), Cardinality(_get_mod(x_ssa)))]

\* _get_weights: modality -> len(sens_loc[mod]) / len(x_ssa)
_get_weights(x_ssa) ==
    LET sens_loc == _get_loc(x_ssa)
    IN  [mod \in _get_mod(x_ssa) |->
            Rat(Cardinality(sens_loc[mod]), Len(x_ssa))]

\* y[sens_loc[mod]] + eps[sens_loc[mod]]: the jittered labels of one
\* modality, in index order
RECURSIVE Restrict(_, _, _)
Restrict(y, eps, idx) ==
    IF idx = {} THEN <<>>
    ELSE LET i == CHOOSE i \in idx : \A j \in idx : i <= j
         IN  <<RAdd(y[i], RInt(eps[i]))>> \o Restrict(y, eps, idx \ {i})

\* statsmodels ECDF(sample)(v): the share of the sample that is <= v
ECDF(sample, v) ==
    Rat(Cardinality({i \in DOMAIN sample : RLe(sample[i], v)}), Len(sample))

\* ---- metrics/_fairness_metrics.py: class EQF ------------------------------
\* _calculate_eqf: np.sort; the knots are np.linspace(0, 1, num = n)
EQF_sorted(sample_data) == SortSeq(sample_data, RLt)

\* interp1d raises for a query outside the knots' range [0, 1]; the knots
\* of a one-element sample are the single point 0
EQF_in_range(sample_data, q) ==
    /\ Len(sample_data) >= 1
    /\ RLe(RInt(0), q)
    /\ IF Len(sample_data) = 1 THEN q = RInt(0) ELSE RLe(q, RInt(1))

\* __call__: the interpolater of _calculate_eqf on value_
EQF(sample_data, q) == np("interp1d", <<EQF_sorted(sample_data), q>>)

\* ---- Python values -------------------------------------------------------
\* None is the empty tuple and any other value v is <<v>>.
None == <<>>
Some(v) == <<v>>
IsNone(o) == o = <<>>
Get(o) == o[1]

\* dict update d[k] = entries[k] for every key of entries, other entries kept
DictPut(d, entries) ==
    [k \in (DOMAIN d) \cup (DOMAIN entries) |->
        IF k \in DOMAIN entries THEN entries[k] ELSE d[k]]

Idle ==
    [op |-> "idle", args |-> <<>>, checks |-> <<>>,
     outcome |-> "none", value |-> <<>>]

\* the call `op(args)` ran the steps `checks` and left by raising `error`
Raised(op, args, checks, error) ==
    [op |-> op, args |-> args, checks |-> checks,
     outcome |-> error, value |-> <<>>]

\* the call `op(args)` ran the steps `checks` and returned `value`
Returned(op, args, checks, value) ==
    [op |-> op, args |-> args, checks |-> checks,
     outcome |-> "return", value |-> value]

\* ---- fairness/_wasserstein.py: class Wasserstein --------------------------
\* __init__: BaseHelper.__init__ sets ecdf = {} and eqf = {}
Wasserstein_init ==
    [sens_val_calib |-> None, weights |-> None, ecdf |-> <<>>, eqf |-> <<>>]

\* _estimate_ecdf_eqf: one table per modality of x_ssa, written into the
\* dicts the instance already holds
estimate_ecdf_eqf(tables, y, x_ssa, eps) ==
    LET sens_loc == _get_loc(x_ssa)
    IN  DictPut(tables, [mod \in _get_mod(x_ssa) |->
                              Restrict(y, eps, sens_loc[mod])])

\* the quantile ECDF[mod1](y[i] + eps[i]) of test individual i
quantile(ecdf, y, x_ssa, eps, i) ==
    ECDF(ecdf[x_ssa[i]], RAdd(y[i], RInt(eps[i])))

\* the double loop of transform: y_fair[i] is the sum over the test
\* modalities mod2 of weights[mod2] * eqf[mod2](ecdf[mod1](y[i] + eps[i]))
y_fair(weights, ecdf, eqf, y, x_ssa, eps) ==
    [i \in DOMAIN y |->
        RSum([mod2 \in _get_mod(x_ssa) |->
                 RMul(weights[mod2],
                      EQF(eqf[mod2], quantile(ecdf, y, x_ssa, eps, i)))],
             _get_mod(x_ssa))]

\* every quantile handed to an EQF is inside that EQF's knots
eqf_calls_ok(ecdf, eqf, y, x_ssa, eps) ==
    \A i \in DOMAIN y : \A mod2 \in _get_mod(x_ssa) :
        EQF_in_range(eqf[mod2], quantile(ecdf, y, x_ssa, eps, i))

\* the return expression (1-epsilon)*y_fair + epsilon*y_test, epsilon = e/EpsDen
blend(e, fair, y) ==
    [i \in DOMAIN y |->
        RAdd(RMul(Rat(EpsDen - e, EpsDen), fair[i]),
             RMul(Rat(e, EpsDen), y[i]))]

\* `elem in sens_val_calib` with sens_val_calib = None raises TypeError
check_mod_outcome(sens_val_calib, sens_val_test) ==
    IF IsNone(sens_val_calib)
    THEN IF sens_val_test = {} THEN "ok" ELSE "TypeError"
    ELSE _check_mod(Get(sens_val_calib), sens_val_test)

\* fit(y_calib, x_ssa_calib) on the instance `self`: <<self after, call>>
Wasserstein_fit_on(self, y, x, eps) ==
    LET op == "Wasserstein.fit"
        args == [y |-> y, x |-> x]
        c1 == <<"_check_shape">>
        c2 == Append(c1, "_get_mod")
        c3 == Append(c2, "_get_weights")
        c4 == Append(c3, "_estimate_ecdf_eqf")
        s1 == [self EXCEPT !.sens_val_calib = Some(_get_mod(x.v))]
        s2 == [s1 EXCEPT !.weights = Some(_get_weights(x.v))]
        s3 == [s2 EXCEPT
                 !.ecdf = estimate_ecdf_eqf(self.ecdf, y.v, x.v, eps),
                 !.eqf = estimate_ecdf_eqf(self.eqf, y.v, x.v, eps)]
    IN  IF _check_shape(y, x) # "ok"
        THEN <<self, Raised(op, args, c1, _check_shape(y, x))>>
        ELSE IF ~BindsMethod(get_mod_params, 2)
        THEN <<self, Raised(op, args, c2, "TypeError")>>
        ELSE IF ~BindsMethod(get_weights_params, 2)
        THEN <<s1, Raised(op, args, c3, "TypeError")>>
        ELSE IF ~BindsMethod(estimate_ecdf_eqf_params, 4)
        THEN <<s2, Raised(op, args, c4, "TypeError")>>
        ELSE <<s3, Returned(op, args, c4, None)>>

\* transform(y_test, x_ssa_test, epsilon) on the instance `self`: the call
Wasserstein_transform_on(self, y, x, e, eps) ==
    LET op == "Wasserstein.transform"
        args == [y |-> y, x |-> x, epsilon |-> e]
        c1 == <<"_check_epsilon">>
        c2 == Append(c1, "_check_shape")
        c3 == Append(c2, "_get_mod")
        c4 == Append(c3, "_check_mod")
        c5 == Append(c4, "_get_loc")
        sens_val_test == _get_mod(x.v)
        mod == check_mod_outcome(self.sens_val_calib, sens_val_test)
        weights == Get(self.weights)
    IN  IF _check_epsilon(e) # "ok"
        THEN Raised(op, args, c1, _check_epsilon(e))
        ELSE IF _check_shape(y, x) # "ok"
        THEN Raised(op, args, c2, _check_shape(y, x))
        ELSE IF ~BindsMethod(get_mod_params, 2)
        THEN Raised(op, args, c3, "TypeError")
        ELSE IF mod # "ok"
        THEN Raised(op, args, c4, mod)
        ELSE IF ~BindsMethod(get_loc_params, 2)
        THEN Raised(op, args, c5, "TypeError")
        ELSE IF ~eqf_calls_ok(self.ecdf, self.eqf, y.v, x.v, eps)
        THEN Raised(op, args, c5, "ValueDomainError")
        ELSE Returned(op, args, c5,
                 blend(e, y_fair(weights, self.ecdf, self.eqf, y.v, x.v, eps),
                       y.v))

\* _check_epsilon on an epsilon given as a fraction
_check_epsilon_at(epsilon) ==
    IF RLt(epsilon, RInt(0)) \/ RLt(RInt(1), epsilon) THEN "RangeError" ELSE "ok"

\* the return expression (1-epsilon)*y_fair + epsilon*y_test for an epsilon
\* given as a fraction
blend_at(epsilon, fair, y) ==
    [i \in DOMAIN y |->
        RAdd(RMul(RSub(RInt(1), epsilon), fair[i]), RMul(epsilon, y[i]))]

\* transform(y_test, x_ssa_test, epsilon) for an epsilon given as a fraction
Wasserstein_transform_at(self, y, x, epsilon, eps) ==
    LET op == "Wasserstein.transform"
        args == [y |-> y, x |-> x, epsilon |-> epsilon]
        c1 == <<"_check_epsilon">>
        c2 == Append(c1, "_check_shape")
        c3 == Append(c2, "_get_mod")
        c4 == Append(c3, "_check_mod")
        c5 == Append(c4, "_get_loc")
        sens_val_test == _get_mod(x.v)
        mod == check_mod_outcome(self.sens_val_calib, sens_val_test)
        weights == Get(self.weights)
    IN  IF _check_epsilon_at(epsilon) # "ok"
        THEN Raised(op, args, c1, _check_epsilon_at(epsilon))
        ELSE IF _check_shape(y, x) # "ok"
        THEN Raised(op, args, c2, _check_shape(y, x))
        ELSE IF ~BindsMethod(get_mod_params, 2)
        THEN Raised(op, args, c3, "TypeError")
        ELSE IF mod # "ok"
        THEN Raised(op, args, c4, mod)
        ELSE IF ~BindsMethod(get_loc_params, 2)
        THEN Raised(op, args, c5, "TypeError")
        ELSE IF ~eqf_calls_ok(self.ecdf, self.eqf, y.v, x.v, eps)
        THEN Raised(op, args, c5, "ValueDomainError")
        ELSE Returned(op, args, c5,
                 blend_at(epsilon, y_fair(weights, self.ecdf, self.eqf, y.v, x.v, eps),
                       y.v))

\* ---- attribute matrices --------------------------------------------------
\* A 2-D numpy array of shape (rows, Len(cols)) held by columns, or a 1-D
\* array (ndim = 1) whose single sequence is cols[1].
MatMods == 1..2

Matrices ==
    UNION {{[ndim |-> 2, rows |-> n, cols |-> c] :
               c \in SeqsUpTo([1..n -> MatMods], MaxCols)} :
              n \in 0..MaxLen}

Vectors ==
    UNION {{[ndim |-> 1, rows |-> n, cols |-> <<v>>] : v \in [1..n -> MatMods]} :
              n \in 0..MaxLen}

MatArgs == Matrices \cup Vectors

\* len(x_sa)
len(x_sa) == x_sa.rows

\* np.shape(x_sa)[1]
ncols(x_sa) == Len(x_sa.cols)

\* the number of items enumerate(x_sa.T) yields: the columns of a 2-D
\* array, the scalars of a 1-D array
nitems(x_sa) == IF x_sa.ndim = 1 THEN x_sa.rows ELSE Len(x_sa.cols)

\* item i of x_sa.T: a column is a 1-D array, a scalar is not an array
item(x_sa, i) ==
    IF x_sa.ndim = 1 THEN [arr |-> FALSE, v |-> <<>>]
    ELSE [arr |-> TRUE, v |-> x_sa.cols[i]]

\* ---- utils/checkers.py, continued ------------------------------------------
\* the body of _check_epsilon_size on its parameters epsilon and x_sa_test
_check_epsilon_size(epsilon, x_sa_test) ==
    IF x_sa_test.ndim = 1
    THEN IF Len(epsilon) # 1 THEN "SizeMismatchError" ELSE "ok"
    ELSE IF Len(epsilon) # ncols(x_sa_test) THEN "SizeMismatchError" ELSE "ok"

\* _check_nb_observations is imported by _wasserstein.py but is not part of
\* the source at hand: at least 2 observations, or InsufficientDataError
_check_nb_observations(x_sa_calib) ==
    IF len(x_sa_calib) < 2 THEN "InsufficientDataError" ELSE "ok"

\* ---- fairness/_wasserstein.py: class MultiWasserStein ---------------------
\* the stages of y_fair_test: key 0 is 'Base model', key i is f'sens_var_{i}'
BaseModel == 0

\* __init__ takes sigma but does not keep it: the instance has these
\* attributes and no other
MultiWasserStein_init ==
    [attrs |-> {"y_fair_test", "sens_val_calib_all", "weights_all",
                "eqf_all", "ecdf_all"},
     y_fair_test |-> <<>>, sens_val_calib_all |-> <<>>,
     weights_all |-> <<>>, eqf_all |-> <<>>, ecdf_all |-> <<>>]

FloatArray(v) == [arr |-> TRUE, flt |-> TRUE, v |-> v]

\* the loop of fit from column i on; draws[i] are the two noise vectors of
\* column i (fit, transform).  <<self after, outcome>>
RECURSIVE fit_loop(_, _, _, _, _)
fit_loop(self, y_calib_inter, x_sa_calib, i, draws) ==
    IF i > nitems(x_sa_calib) THEN <<self, "return">>
    ELSE IF "sigma" \notin self.attrs THEN <<self, "AttributeError">>
    ELSE
      LET sens == item(x_sa_calib, i)
          fitted == Wasserstein_fit_on(Wasserstein_init, y_calib_inter,
                                       sens, draws[i][1])
          inst == fitted[1]
          stored ==
            [self EXCEPT
               !.sens_val_calib_all = DictPut(@, [k \in {i} |-> inst.sens_val_calib]),
               !.weights_all = DictPut(@, [k \in {i} |-> inst.weights]),
               !.eqf_all = DictPut(@, [k \in {i} |-> inst.eqf]),
               !.ecdf_all = DictPut(@, [k \in {i} |-> inst.ecdf])]
          moved == Wasserstein_transform_on(inst, y_calib_inter, sens, 0,
                                            draws[i][2])
      IN  IF fitted[2].outcome # "return" THEN <<self, fitted[2].outcome>>
          ELSE IF moved.outcome # "return" THEN <<stored, moved.outcome>>
          ELSE fit_loop(stored, FloatArray(moved.value), x_sa_calib,
                        i + 1, draws)

\* fit(y_calib, x_sa_calib): <<self after, call>>
MultiWasserStein_fit_on(self, y, x, draws) ==
    LET op == "MultiWasserStein.fit"
        args == [y |-> y, x |-> x]
        c1 == <<"_check_nb_observations">>
        c2 == Append(c1, "loop")
        looped == fit_loop(self, y, x, 1, draws)
    IN  IF _check_nb_observations(x) # "ok"
        THEN <<self, Raised(op, args, c1, _check_nb_observations(x))>>
        ELSE IF looped[2] # "return"
        THEN <<looped[1], Raised(op, args, c2, looped[2])>>
        ELSE <<looped[1], Returned(op, args, c2, None)>>

\* the loop of transform from column i on.  <<self after, outcome>>
RECURSIVE transform_loop(_, _, _, _, _, _)
transform_loop(self, y_test_inter, x_sa_test, epsilon, i, draws) ==
    IF i > nitems(x_sa_test) THEN <<self, "return">>
    ELSE IF "sigma" \notin self.attrs THEN <<self, "AttributeError">>
    ELSE IF i \notin DOMAIN self.sens_val_calib_all THEN <<self, "KeyError">>
    ELSE IF i > Len(epsilon) THEN <<self, "IndexError">>
    ELSE
      LET inst == [sens_val_calib |-> self.sens_val_calib_all[i],
                   weights |-> self.weights_all[i],
                   eqf |-> self.eqf_all[i],
                   ecdf |-> self.ecdf_all[i]]
          moved == Wasserstein_transform_on(inst, y_test_inter,
                       item(x_sa_test, i), epsilon[i], draws[i][1])
          stored == [self EXCEPT
                       !.y_fair_test = DictPut(@, [k \in {i} |-> moved.value])]
      IN  IF moved.outcome # "return" THEN <<self, moved.outcome>>
          ELSE transform_loop(stored, FloatArray(moved.value), x_sa_test,
                              epsilon, i + 1, draws)

\* lines 277-281: epsilon == None is replaced by [0] for a 1-D array and by
\* [0]*np.shape(x_sa_test)[1] otherwise; a given list is kept
default_epsilon(epsilon_arg, x_sa_test) ==
    IF IsNone(epsilon_arg)
    THEN IF x_sa_test.ndim = 1 THEN <<0>>
         ELSE [k \in 1..ncols(x_sa_test) |-> 0]
    ELSE Get(epsilon_arg)

\* transform(y_test, x_sa_test, epsilon): <<self after, call>>
MultiWasserStein_transform_on(self, y, x, epsilon_arg, draws) ==
    LET op == "MultiWasserStein.transform"
        args == [y |-> y, x |-> x, epsilon |-> epsilon_arg]
        c1 == <<"_check_epsilon_size">>
        c2 == Append(c1, "Base model")
        c3 == Append(c2, "loop")
        epsilon == default_epsilon(epsilon_arg, x)
        based == [self EXCEPT
                    !.y_fair_test = DictPut(@, [k \in {BaseModel} |-> y.v])]
        looped == transform_loop(based, y, x, epsilon, 1, draws)
        last == nitems(x)
    IN  IF ~BindsFunction(check_epsilon_size_params, 2)
        THEN <<self, Raised(op, args, c1, "TypeError")>>
        ELSE IF _check_epsilon_size(epsilon, x) # "ok"
        THEN <<self, Raised(op, args, c1, _check_epsilon_size(epsilon, x))>>
        ELSE IF looped[2] # "return"
        THEN <<looped[1], Raised(op, args, c3, looped[2])>>
        ELSE IF last = 0
        THEN <<looped[1], Raised(op, args, c3, "UnboundLocalError")>>
        ELSE <<looped[1],
               Returned(op, args, c3, looped[1].y_fair_test[last])>>

\* get_sequential_fairness()
get_sequential_fairness(self) == self.y_fair_test

\* ---- fairness/_more_wasserstein.py ------------------------------------------
\* A numpy array holds elements of one dtype; an element is the pair of its
\* dtype and its content: the integer 1, the float 1.0 and the string '1'
\* are three different values.
DTypes == {"int", "float", "str"}

Scalar(dtype, v) == [t |-> dtype, v |-> v]

\* the dtype np.vstack gives the stack of an integer row on an array
promote_int(dtype) == dtype

\* the attribute matrices handed to the permutation helpers: 2-D arrays of
\* at least one column
PermMatrices ==
    UNION {{[ndim |-> 2, rows |-> n, cols |-> c, dtype |-> d] :
               c \in SeqsUpTo([1..n -> MatMods], MaxCols) \ {<<>>},
               d \in DTypes} :
              n \in 0..MaxLen}

\* list(itertools.permutations(range(n))): the tuples of n distinct indices
\* of 0..n-1
permutations(n) ==
    {p \in [1..n -> 0..(n - 1)] : \A i, j \in 1..n : p[i] = p[j] => i = j}

\* np.vstack((ind_cols, x_sa)): the index row and the data rows, all of the
\* promoted dtype.  Row 0 is the index row.
vstack_ind(x_sa) ==
    LET d == promote_int(x_sa.dtype)
    IN  [r \in 0..x_sa.rows |->
           [j \in 1..ncols(x_sa) |->
              IF r = 0 THEN Scalar(d, j - 1)
              ELSE Scalar(d, x_sa.cols[j][r])]]

\* x_sa_with_ind[:, permutation]
take_cols(stacked, permutation) ==
    [r \in DOMAIN stacked |->
       [j \in DOMAIN permutation |-> stacked[r][permutation[j] + 1]]]

\* key = tuple(permuted_x_sa[0])
perm_key(stacked, permutation) == take_cols(stacked, permutation)[0]

\* values = permuted_x_sa[1:].tolist(): the list of the data rows
perm_values(stacked, permutation) ==
    [r \in (DOMAIN stacked) \ {0} |-> take_cols(stacked, permutation)[r]]

\* permutations_cols(x_sa): [outcome, value]; x_sa[0] of an array of no row
\* raises IndexError
permutations_cols(x_sa) ==
    IF x_sa.rows = 0 THEN [outcome |-> "IndexError", value |-> <<>>]
    ELSE
      LET n == ncols(x_sa)
          stacked == vstack_ind(x_sa)
          keys == {perm_key(stacked, p) : p \in permutations(n)}
          of(key) == CHOOSE p \in permutations(n) : perm_key(stacked, p) = key
      IN  [outcome |-> "return",
           value |-> [key \in keys |-> perm_values(stacked, of(key))]]

\* itertools.permutations yields the tuples in lexicographic order
lex_less(p, q) ==
    \E i \in DOMAIN p :
       /\ p[i] < q[i]
       /\ \A j \in DOMAIN p : j < i => p[j] = q[j]

\* the tuples of the set P as the list in lexicographic order
RECURSIVE in_order(_)
in_order(P) ==
    IF P = {} THEN <<>>
    ELSE LET least == CHOOSE p \in P : \A q \in P \ {p} : lex_less(p, q)
         IN  <<least>> \o in_order(P \ {least})

\* the keys of permutations_cols(x_sa) in the order of insertion
perm_keys(x_sa) ==
    LET order == in_order(permutations(ncols(x_sa)))
    IN  [k \in DOMAIN order |-> perm_key(vstack_ind(x_sa), order[k])]

\* two dict keys are the same key when they are equal tuples: a float equals
\* the integer of its value, a string equals no number
same_scalar(a, b) ==
    /\ a.v = b.v
    /\ (a.t = "str") = (b.t = "str")

same_key(a, b) ==
    /\ DOMAIN a = DOMAIN b
    /\ \A j \in DOMAIN a : same_scalar(a[j], b[j])

\* d[key] of a dict d: None when d has no such key
lookup(d, key) ==
    IF \E k \in DOMAIN d : same_key(k, key)
    THEN Some(d[CHOOSE k \in DOMAIN d : same_key(k, key)])
    ELSE None

\* np.array(rows): the 2-D array of a list of rows of n elements each
np_array(rows, n) ==
    [ndim |-> 2, rows |-> Len(rows),
     cols |-> [j \in 1..n |-> [r \in 1..Len(rows) |-> rows[r][j].v]]]

\* np.array([np.array(epsilon).T]): the list as an array of one row
epsilon_row(epsilon) ==
    [ndim |-> 2, rows |-> 1, cols |-> [j \in DOMAIN epsilon |-> <<epsilon[j]>>],
     dtype |-> "float"]

\* A stage name as a string is 'Base model' (base) or 'sens_var_' followed
\* by digits and, when point holds, by '.0'.
Base_model == [base |-> TRUE, digits |-> 0, point |-> FALSE]

\* f'sens_var_{k}' of a key element k: the digits of k, followed by '.0'
\* when k is a float
sens_var(k) == [base |-> FALSE, digits |-> k.v, point |-> k.t = "float"]

\* the name a stage of MultiWasserStein has as a string: position i is
\* f'sens_var_{i}'
stage_name(i) ==
    IF i = BaseModel THEN Base_model
    ELSE [base |-> FALSE, digits |-> i, point |-> FALSE]

\* lines 88-91: old_keys are the stages in insertion order, new_keys are
\* 'Base model' and one name per element of the key; zip pairs them off and
\* a stage without a pair raises KeyError (None)
relabel(trace, key) ==
    LET new_keys == <<Base_model>> \o [j \in DOMAIN key |-> sens_var(key[j])]
        paired == {i \in DOMAIN trace : i + 1 \in DOMAIN new_keys}
    IN  IF paired # DOMAIN trace THEN None
        ELSE Some([name \in {new_keys[i + 1] : i \in paired} |->
                     trace[CHOOSE i \in paired : new_keys[i + 1] = name]])

\* lines 87-91 of one pass: the trace of the applied MultiWasserStein
\* `moved` is relabelled for the ordering `key`.  [outcome, value]
perm_wst_named(key, moved) ==
    LET named == relabel(get_sequential_fairness(moved[1]), key)
    IN  IF moved[2].outcome # "return"
        THEN [outcome |-> moved[2].outcome, value |-> <<>>]
        ELSE IF IsNone(named)
        THEN [outcome |-> "KeyError", value |-> <<>>]
        ELSE [outcome |-> "return", value |-> Get(named)]

\* lines 81-86 of one pass: the fitted MultiWasserStein `fitted` is applied
\* to the test matrix and the epsilon of the ordering `key`
perm_wst_moved(key, fitted, y_test, test, eps, draw) ==
    LET n == Len(key)
        x_test == lookup(test, key)
        epsilon == IF IsNone(eps) THEN Some(None) ELSE
                   IF IsNone(lookup(Get(eps), key)) THEN None
                   ELSE Some(Some([j \in 1..n |->
                                      Get(lookup(Get(eps), key))[1][j].v]))
    IN  IF fitted[2].outcome # "return"
        THEN [outcome |-> fitted[2].outcome, value |-> <<>>]
        ELSE IF IsNone(x_test) \/ IsNone(epsilon)
        THEN [outcome |-> "KeyError", value |-> <<>>]
        ELSE perm_wst_named(key,
                 MultiWasserStein_transform_on(fitted[1], y_test,
                     np_array(Get(x_test), n), Get(epsilon), draw))

\* one pass of the loop of calculate_perm_wst, lines 79-91, for the ordering
\* `key`: a fresh MultiWasserStein is fitted (lines 79-80), then applied
perm_wst_pass(key, y_calib, calib, y_test, test, eps, draw) ==
    perm_wst_moved(key,
        MultiWasserStein_fit_on(MultiWasserStein_init, y_calib,
            np_array(calib[key], Len(key)), draw[1]),
        y_test, test, eps, draw[2])

\* the loop of calculate_perm_wst from the k-th ordering on:
\* [outcome, value], value being store_dict
RECURSIVE perm_wst_loop(_, _, _, _, _, _, _, _, _)
RECURSIVE perm_wst_stored(_, _, _, _, _, _, _, _, _, _)

\* the end of a pass: the pass that raised ends the call, the trace `passed`
\* of any other is stored under its ordering
perm_wst_stored(keys, k, store_dict, y_calib, calib, y_test, test, eps, draws, passed) ==
    IF passed.outcome # "return"
    THEN [outcome |-> passed.outcome, value |-> <<>>]
    ELSE perm_wst_loop(keys, k + 1,
                       DictPut(store_dict, [q \in {keys[k]} |-> passed.value]),
                       y_calib, calib, y_test, test, eps, draws)

\* the head of the loop: the next ordering, or the end of the orderings
perm_wst_loop(keys, k, store_dict, y_calib, calib, y_test, test, eps, draws) ==
    IF k > Len(keys) THEN [outcome |-> "return", value |-> store_dict]
    ELSE perm_wst_stored(keys, k, store_dict, y_calib, calib, y_test, test,
                         eps, draws,
                         perm_wst_pass(keys[k], y_calib, calib, y_test, test,
                                       eps, draws[k]))

\* calculate_perm_wst(y_calib, x_sa_calib, y_test, x_sa_test, epsilon)
calculate_perm_wst(y_calib, x_sa_calib, y_test, x_sa_test, epsilon, draws) ==
    LET all_perm_calib == permutations_cols(x_sa_calib)
        all_perm_test == permutations_cols(x_sa_test)
        all_perm_epsilon ==
            IF IsNone(epsilon) THEN None
            ELSE Some(permutations_cols(epsilon_row(Get(epsilon))).value)
    IN  IF all_perm_calib.outcome # "return"
        THEN [outcome |-> all_perm_calib.outcome, value |-> <<>>]
        ELSE IF all_perm_test.outcome # "return"
        THEN [outcome |-> all_perm_test.outcome, value |-> <<>>]
        ELSE perm_wst_loop(perm_keys(x_sa_calib), 1, <<>>, y_calib,
                           all_perm_calib.value, y_test, all_perm_test.value,
                           all_perm_epsilon, draws)

\* ---- metrics/_fairness_metrics.py: unfairness ------------------------------
\* np.linspace(0, 1, num=100) has the points t/(ProbsNum - 1), t = 0..ProbsNum-1
ProbsNum == 100

\* the greatest of a non-empty set of numbers
RMax(S) == CHOOSE m \in S : \A q \in S : RLe(q, m)

\* np.quantile(data, t/(ProbsNum - 1)), linear method, on the sorted data:
\* the value at the position h = (n-1)*t/(ProbsNum-1) between its neighbours
np_quantile(sorted, t) ==
    LET n == Len(sorted)
        h == Rat((n - 1) * t, ProbsNum - 1)
        lo == RFloor(h)
        hi == IF lo + 2 <= n THEN lo + 2 ELSE n
    IN  RAdd(sorted[lo + 1],
             RMul(RSub(h, RInt(lo)), RSub(sorted[hi], sorted[lo + 1])))

\* diff_quantile: the greatest distance of the two quantile functions on probs
diff_quantile(data1, data2) ==
    LET s1 == EQF_sorted(data1)
        s2 == EQF_sorted(data2)
    IN  RMax({RAbs(RSub(np_quantile(s1, t), np_quantile(s2, t))) :
                 t \in 0..(ProbsNum - 1)})

\* max(lst_unfairness) for one attribute vector: the greatest diff_quantile
\* of the estimator against its restriction to a modality
unfairness_of(estimator, sens) ==
    RMax({diff_quantile(estimator,
                        Restrict(estimator, [i \in DOMAIN estimator |-> 0],
                                 {i \in DOMAIN sens : sens[i] = mod})) :
             mod \in _get_mod(sens)})

\* unfairness(estimator, sensitive_features): [outcome, value]; max() of an
\* empty list raises ValueError
unfairness(estimator, sensitive_features) ==
    LET sens_all == IF sensitive_features.ndim = 1
                    THEN <<sensitive_features.cols[1]>>
                    ELSE sensitive_features.cols
    IN  IF sens_all = <<>> \/ sensitive_features.rows = 0
        THEN [outcome |-> "ValueError", value |-> <<>>]
        ELSE [outcome |-> "return",
              value |-> RMax({unfairness_of(estimator, sens_all[c]) :
                                 c \in DOMAIN sens_all})]

\* unfairness_multi(y_fair_dict, sensitive_features).  A dict is the list of
\* its items [name, value] in insertion order; entry i of the result is
\* named f'sens_var_{i}', i counting from 0.
unfairness_multi(y_fair_dict, sensitive_features) ==
    LET results == [i \in DOMAIN y_fair_dict |->
                      unfairness(y_fair_dict[i].value, sensitive_features)]
    IN  IF \E i \in DOMAIN results : results[i].outcome # "return"
        THEN [outcome |-> "ValueError", value |-> <<>>]
        ELSE [outcome |-> "return",
              value |-> [i \in DOMAIN results |->
                           [name |-> [base |-> FALSE, digits |-> i - 1,
                                      point |-> FALSE],
                            value |-> results[i].value]]]

\* ---- metrics/_performance_metrics.py ---------------------------------------
\* the names bound in the module: its three functions; it imports nothing
performance_metrics_globals == {"risk", "risk_multi", "risk_multi_permutations"}

\* risk(y_true, y_predict, classif): accuracy_score is the share of equal
\* labels, mean_squared_error the mean of the squared differences; both
\* raise ValueError on no sample; a name that is not bound raises NameError
risk(y_true, y_predict, classif) ==
    LET name == IF classif THEN "accuracy_score" ELSE "mean_squared_error"
        n == Len(y_true)
        hits == {i \in 1..n : y_true[i] = y_predict[i]}
        squares == [i \in 1..n |->
                      RMul(RSub(y_true[i], y_predict[i]),
                           RSub(y_true[i], y_predict[i]))]
    IN  IF name \notin performance_metrics_globals
        THEN [outcome |-> "NameError", value |-> <<>>]
        ELSE IF n = 0 \/ Len(y_predict) # n
        THEN [outcome |-> "ValueError", value |-> <<>>]
        ELSE IF classif
        THEN [outcome |-> "return", value |-> Rat(Cardinality(hits), n)]
        ELSE [outcome |-> "return",
              value |-> RMul(RSum(squares, 1..n), Rat(1, n))]

\* risk_multi(y_true, y_fair_dict, classif): the risk of every stage under
\* the name the stage has in y_fair_dict
risk_multi(y_true, y_fair_dict, classif) ==
    LET results == [i \in DOMAIN y_fair_dict |->
                      risk(y_true, y_fair_dict[i].value, classif)]
    IN  IF \E i \in DOMAIN results : results[i].outcome # "return"
        THEN [outcome |-> results[CHOOSE i \in DOMAIN results :
                                     /\ results[i].outcome # "return"
                                     /\ \A j \in 1..(i - 1) :
                                           results[j].outcome = "return"].outcome,
              value |-> <<>>]
        ELSE [outcome |-> "return",
              value |-> [i \in DOMAIN results |->
                           [name |-> y_fair_dict[i].name,
                            value |-> results[i].value]]]

VARIABLES w, mw, call
vars == <<w, mw, call>>

\* ---- the draws of np.random.uniform(-sigma, sigma, n) ----------------------
NoDraw(n) == [i \in 1..n |-> 0]

\* Wasserstein.fit draws in _estimate_ecdf_eqf, when that call is reached
fit_draws(y, x) ==
    IF /\ _check_shape(y, x) = "ok"
       /\ BindsMethod(get_mod_params, 2)
       /\ BindsMethod(get_weights_params, 2)
       /\ BindsMethod(estimate_ecdf_eqf_params, 4)
    THEN [DOMAIN y.v -> Jitter] ELSE {NoDraw(Len(y.v))}

\* Wasserstein.transform draws after its checks and _get_loc
transform_draws(self, y, x, e) ==
    IF /\ _check_epsilon(e) = "ok"
       /\ _check_shape(y, x) = "ok"
       /\ BindsMethod(get_mod_params, 2)
       /\ check_mod_outcome(self.sens_val_calib, _get_mod(x.v)) = "ok"
       /\ BindsMethod(get_loc_params, 2)
    THEN [DOMAIN y.v -> Jitter] ELSE {NoDraw(Len(y.v))}

\* the loops of MultiWasserStein draw once per Wasserstein call they make
loop_draws(self, x) ==
    IF "sigma" \in self.attrs
    THEN [1..nitems(x) -> [1..2 -> [1..len(x) -> Jitter]]]
    ELSE {[i \in 1..nitems(x) |-> [j \in 1..2 |-> NoDraw(len(x))]]}

\* ---- arguments of the MultiWasserStein calls -------------------------------
\* labels: a float array with one label per row of the matrix
MultiLabelArgs(x) == {FloatArray(v) : v \in [1..len(x) -> LabelVals]}

\* epsilon: None, or a list of up to MaxCols + 1 values
EpsilonArgs ==
    {None} \cup {Some(l) : l \in SeqsUpTo({0, EpsDen}, MaxCols + 1)}

\* ---- the caller ------------------------------------------------------------
Wasserstein_fit ==
    /\ call.op = "idle"
    /\ \E y \in LabelArgs, x \in AttrArgs :
         \E eps \in fit_draws(y, x) :
            /\ w' = Wasserstein_fit_on(w, y, x, eps)[1]
            /\ call' = Wasserstein_fit_on(w, y, x, eps)[2]
    /\ UNCHANGED mw

Wasserstein_transform ==
    /\ call.op = "idle"
    /\ \E y \in LabelArgs, x \in AttrArgs, e \in EpsVals :
         \E eps \in transform_draws(w, y, x, e) :
            call' = Wasserstein_transform_on(w, y, x, e, eps)
    /\ UNCHANGED <<w, mw>>

MultiWasserStein_fit ==
    /\ call.op = "idle"
    /\ \E x \in MatArgs :
         \E y \in MultiLabelArgs(x), draws \in loop_draws(mw, x) :
            /\ mw' = MultiWasserStein_fit_on(mw, y, x, draws)[1]
            /\ call' = MultiWasserStein_fit_on(mw, y, x, draws)[2]
    /\ UNCHANGED w

MultiWasserStein_transform ==
    /\ call.op = "idle"
    /\ \E x \in MatArgs, epsilon \in EpsilonArgs :
         \E y \in MultiLabelArgs(x), draws \in loop_draws(mw, x) :
            /\ mw' = MultiWasserStein_transform_on(mw, y, x, epsilon, draws)[1]
            /\ call' = MultiWasserStein_transform_on(mw, y, x, epsilon, draws)[2]
    /\ UNCHANGED w

MultiWasserStein_get_sequential_fairness ==
    /\ call.op = "idle"
    /\ call' = Returned("MultiWasserStein.get_sequential_fairness", <<>>,
                        <<>>, get_sequential_fairness(mw))
    /\ UNCHANGED <<w, mw>>

\* BaseHelper()._get_weights(x_ssa) on a 1-D array
BaseHelper_get_weights ==
    /\ call.op = "idle"
    /\ \E x \in {a \in AttrArgs : a.arr} :
         call' = Returned("BaseHelper._get_weights", [x |-> x],
                          <<"_get_loc", "_get_mod">>, _get_weights(x.v))
    /\ UNCHANGED <<w, mw>>

\* permutations_cols(x_sa)
permutations_cols_call ==
    /\ call.op = "idle"
    /\ \E x \in PermMatrices :
         LET r == permutations_cols(x)
         IN  call' = [op |-> "permutations_cols", args |-> [x |-> x],
                      checks |-> <<>>, outcome |-> r.outcome,
                      value |-> r.value]
    /\ UNCHANGED <<w, mw>>

\* v[::-1]
Reverse(v) == [i \in DOMAIN v |-> v[Len(v) + 1 - i]]

\* the calibration matrices handed to calculate_perm_wst: 2-D arrays whose
\* columns are a vector and its reverse in turn
PermCalibArgs ==
    UNION {{[ndim |-> 2, rows |-> n,
             cols |-> [j \in 1..c |-> IF j % 2 = 1 THEN v ELSE Reverse(v)],
             dtype |-> d] :
               v \in [1..n -> MatMods], c \in 1..MaxCols, d \in DTypes} :
              n \in 0..MaxLen}

\* the labels handed to calculate_perm_wst with the matrix x: all equal, or
\* two values in turn
PermLabelArgs(x) ==
    {FloatArray([i \in 1..len(x) |-> RInt(0)]),
     FloatArray([i \in 1..len(x) |-> RInt(Grain * (i % 2))])}

\* the test matrices going with a calibration matrix: the matrix itself,
\* its first column alone, and its content as integers
PermTestArgs(x) ==
    {x, [x EXCEPT !.cols = <<x.cols[1]>>], [x EXCEPT !.dtype = "int"]}

\* epsilon: None, or one value per attribute column
PermEpsilonArgs(x) ==
    {None, Some([j \in 1..ncols(x) |-> 0]),
     Some([j \in 1..ncols(x) |-> IF j = 1 THEN EpsDen ELSE 0])}

\* the draws of the fit and of the transform of every ordering
perm_draws(x, x_test) ==
    [DOMAIN perm_keys(x) ->
        loop_draws(MultiWasserStein_init, x)
            \X loop_draws(MultiWasserStein_init, x_test)]

\* calculate_perm_wst(y_calib, x_sa_calib, y_test, x_sa_test, epsilon)
calculate_perm_wst_call ==
    /\ call.op = "idle"
    /\ \E x \in PermCalibArgs :
         \E y \in PermLabelArgs(x), x_test \in PermTestArgs(x),
            epsilon \in PermEpsilonArgs(x) :
            \E draws \in perm_draws(x, x_test) :
               LET r == calculate_perm_wst(y, x, y, x_test, epsilon, draws)
               IN  call' = [op |-> "calculate_perm_wst",
                            args |-> [y |-> y, x |-> x, y_test |-> y,
                                      x_test |-> x_test, epsilon |-> epsilon],
                            checks |-> <<>>, outcome |-> r.outcome,
                            value |-> r.value]
    /\ UNCHANGED <<w, mw>>

\* ---- arguments of the metrics ------------------------------------------------
\* a trace as MultiWasserStein names it: 'Base model' holding y and k stages
\* 'sens_var_1' .. 'sens_var_k', here holding y and its reverse in turn
TraceArg(y, k) ==
    [i \in 1..(k + 1) |->
       [name |-> stage_name(i - 1),
        value |-> IF i % 2 = 1 THEN y ELSE Reverse(y)]]

\* sensitive features of n observations: a 1-D array, or a 2-D array of no
\* column, of one column, or of a column and its reverse
MetricMatArgs(n) ==
    {[ndim |-> 2, rows |-> n, cols |-> <<>>]}
    \cup UNION {{[ndim |-> 1, rows |-> n, cols |-> <<v>>],
                 [ndim |-> 2, rows |-> n, cols |-> <<v>>],
                 [ndim |-> 2, rows |-> n, cols |-> <<v, Reverse(v)>>]} :
                   v \in [1..n -> MatMods]}

\* the labels of n observations in ascending order
MetricLabelArgs(n) ==
    {y \in [1..n -> LabelVals] : \A i, j \in 1..n : i <= j => RLe(y[i], y[j])}

\* unfairness_multi(y_fair_dict, sensitive_features) on the trace of the
\* columns of sensitive_features
unfairness_multi_call ==
    /\ call.op = "idle"
    /\ \E n \in 0..MaxLen :
         \E y \in MetricLabelArgs(n), x \in MetricMatArgs(n) :
            LET y_fair_dict == TraceArg(y, Len(x.cols))
                r == unfairness_multi(y_fair_dict, x)
            IN  call' = [op |-> "unfairness_multi",
                         args |-> [y_fair_dict |-> y_fair_dict, x |-> x],
                         checks |-> <<>>, outcome |-> r.outcome,
                         value |-> r.value]
    /\ UNCHANGED <<w, mw>>

\* risk_multi(y_true, y_fair_dict, classif)
risk_multi_call ==
    /\ call.op = "idle"
    /\ \E n \in 0..MaxLen, k \in 0..MaxCols, classif \in BOOLEAN :
         \E y_true \in [1..n -> LabelVals], y \in [1..n -> LabelVals] :
            LET y_fair_dict == TraceArg(y, k)
                r == risk_multi(y_true, y_fair_dict, classif)
            IN  call' = [op |-> "risk_multi",
                         args |-> [y_true |-> y_true,
                                   y_fair_dict |-> y_fair_dict,
                                   classif |-> classif],
                         checks |-> <<>>, outcome |-> r.outcome,
                         value |-> r.value]
    /\ UNCHANGED <<w, mw>>

\* ---- EQF(sample_data)(value_) -------------------------------------------------
\* n values 1, 1 + step, 1 + 2 step, ..
EQFRamp(n, step) == [i \in 1..n |-> RInt(1 + step * (i - 1))]

\* the samples handed to EQF: 2 values or more, equal (step 0) or distinct,
\* in ascending order, in descending order, and with the smallest value last
EQFSamples ==
    UNION {{EQFRamp(n, step), Reverse(EQFRamp(n, step)),
            Append(Tail(EQFRamp(n, step)), RInt(1))} :
           n \in 2..MaxSample, step \in 0..MaxStep}

\* the quantiles asked of the EQF of n values: the knots k/(n-1), the
\* midpoints between them, and one point beyond each end
EQFQueries(n) == {Rat(k, 2 * (n - 1)) : k \in (0 - 1)..(2 * n - 1)}

\* EQF(sample_data)(value_): __call__ turns the ValueError of the
\* interpolater into its own
EQF_call ==
    /\ call.op = "idle"
    /\ \E sample_data \in EQFSamples :
         \E value_ \in EQFQueries(Len(sample_data)) :
            call' = IF EQF_in_range(sample_data, value_)
                    THEN Returned("EQF", [sample_data |-> sample_data,
                                          value_ |-> value_],
                                  <<>>, EQF(sample_data, value_))
                    ELSE Raised("EQF", [sample_data |-> sample_data,
                                        value_ |-> value_],
                                <<>>, "ValueDomainError")
    /\ UNCHANGED <<w, mw>>

\* ---- the example of Wasserstein.transform's docstring -------------------------
\* lines 110-117 in thousandths: sigma = 0.001 is one unit of jitter
example_y_calib ==
    FloatArray(<<RInt(50), RInt(80), RInt(900), RInt(900), RInt(10), RInt(880)>>)
example_x_ssa_calib == [arr |-> TRUE, v |-> <<1, 3, 2, 3, 1, 2>>]
example_y_test == FloatArray(<<RInt(10), RInt(990), RInt(980), RInt(40)>>)
example_x_ssa_test == [arr |-> TRUE, v |-> <<3, 1, 2, 3>>]
example_epsilon == Rat(2, 10)

\* the transform of the example on the instance the fit left, once the fit
\* has returned; the exception of the fit ends the example otherwise
example_transform(fitted, eps) ==
    IF fitted[2].outcome # "return" THEN fitted[2]
    ELSE Wasserstein_transform_at(fitted[1], example_y_test,
                                  example_x_ssa_test, example_epsilon, eps)

\* the draws of the example's transform on the fitted instance
example_draws(fitted) ==
    IF fitted[2].outcome # "return" THEN {NoDraw(Len(example_y_test.v))}
    ELSE [DOMAIN example_y_test.v -> Jitter]

\* wasserstein = Wasserstein(sigma=0.001); wasserstein.fit(y_calib,
\* x_ssa_calib); wasserstein.transform(y_test, x_ssa_test, epsilon=0.2)
Wasserstein_example ==
    /\ call.op = "idle"
    /\ \E eps_fit \in fit_draws(example_y_calib, example_x_ssa_calib) :
         \E eps \in example_draws(Wasserstein_fit_on(Wasserstein_init,
                        example_y_calib, example_x_ssa_calib, eps_fit)) :
            call' = [example_transform(
                         Wasserstein_fit_on(Wasserstein_init, example_y_calib,
                                            example_x_ssa_calib, eps_fit),
                         eps)
                     EXCEPT !.op = "Wasserstein.example"]
    /\ UNCHANGED <<w, mw>>

\* ---- calculate_perm_wst on a dataset with two correlated attributes ----------
\* six observations; the second attribute agrees with the first on four
correlated_y == FloatArray(<<RInt(0), RInt(1), RInt(2), RInt(4), RInt(8), RInt(9)>>)
correlated_x_sa ==
    [ndim |-> 2, rows |-> 6,
     cols |-> <<(<<1, 1, 1, 2, 2, 2>>), (<<1, 1, 2, 1, 2, 2>>)>>,
     dtype |-> "int"]

\* calculate_perm_wst(y, x_sa, y, x_sa) with the default epsilon
calculate_perm_wst_correlated ==
    /\ call.op = "idle"
    /\ \E draws \in perm_draws(correlated_x_sa, correlated_x_sa) :
         LET r == calculate_perm_wst(correlated_y, correlated_x_sa,
                                     correlated_y, correlated_x_sa, None, draws)
         IN  call' = [op |-> "calculate_perm_wst.correlated",
                      args |-> [y |-> correlated_y, x |-> correlated_x_sa,
                                y_test |-> correlated_y,
                                x_test |-> correlated_x_sa, epsilon |-> None],
                      checks |-> <<>>, outcome |-> r.outcome,
                      value |-> r.value]
    /\ UNCHANGED <<w, mw>>

\* ---- utils/checkers.py: _check_metric -----------------------------------------
\* np.all(np.isin(y_true, [0, 1])) is True of the empty array as well; the
\* statement under it is `raise Warning(...)`, which leaves by the exception
_check_metric(y_true) ==
    IF \A i \in DOMAIN y_true : y_true[i] \in {RInt(0), RInt(1)}
    THEN "Warning"
    ELSE "ok"

\* true labels: scores among 0, 1 and 2
MetricCheckArgs == SeqsUpTo({RInt(k) : k \in 0..2}, MaxLen)

\* _check_metric(y_true)
check_metric_call ==
    /\ call.op = "idle"
    /\ \E y_true \in MetricCheckArgs :
         call' = IF _check_metric(y_true) = "ok"
                 THEN Returned("_check_metric", [y_true |-> y_true],
                               <<"_check_metric">>, None)
                 ELSE Raised("_check_metric", [y_true |-> y_true],
                             <<"_check_metric">>, _check_metric(y_true))
    /\ UNCHANGED <<w, mw>>

\* the caller takes the result of the finished call
Return ==
    /\ call.op # "idle"
    /\ call' = Idle
    /\ UNCHANGED <<w, mw>>

Init ==
    /\ w = Wasserstein_init
    /\ mw = MultiWasserStein_init
    /\ call = Idle

Next ==
    \/ Wasserstein_fit
    \/ Wasserstein_transform
    \/ MultiWasserStein_fit
    \/ MultiWasserStein_transform
    \/ MultiWasserStein_get_sequential_fairness
    \/ BaseHelper_get_weights
    \/ permutations_cols_call
    \/ calculate_perm_wst_call
    \/ unfairness_multi_call
    \/ risk_multi_call
    \/ EQF_call
    \/ Wasserstein_example
    \/ calculate_perm_wst_correlated
    \/ check_metric_call
    \/ Return

Spec == Init /\ [][Next]_vars

\* ==== the claims ===========================================================
\* shorthands for the finished call
IsCall(op) == call.op = op
y_arg == call.args.y
x_arg == call.args.x

\* the modalities of the attribute vector of the finished call
x_mods == {x_arg.v[i] : i \in DOMAIN x_arg.v}

\* the indices of the attribute vector v that carry modality mod
Where(v, mod) == {i \in DOMAIN v : v[i] = mod}

\* the jittered labels of modality mod
Sample(yv, xv, eps, mod) == Restrict(yv, eps, Where(xv, mod))

\* sum over the modalities M of weight[m2] * EQF[m2](ECDF[m](label + jitter))
Barycenter(weight, ecdf, eqf, M, m, label, jitter) ==
    RSum([m2 \in M |->
             RMul(weight[m2],
                  EQF(eqf[m2], ECDF(ecdf[m], RAdd(label, RInt(jitter)))))],
         M)

\* the instance holds, for every calibration modality, a weight and tables
\* of at least two observations
Fitted(self) ==
    /\ ~IsNone(self.sens_val_calib)
    /\ ~IsNone(self.weights)
    /\ \A m \in Get(self.sens_val_calib) :
          /\ m \in DOMAIN Get(self.weights)
          /\ m \in DOMAIN self.ecdf
          /\ m \in DOMAIN self.eqf
          /\ Len(self.ecdf[m]) >= 2
          /\ Len(self.eqf[m]) >= 2

\* C1, first half: fit on arrays of equal length with float labels returns
\* and stores the modalities, the weights and, per modality, the ECDF and
\* EQF tables of the jittered calibration labels
C1_FitStoresTables ==
    (IsCall("Wasserstein.fit") /\ _check_shape(y_arg, x_arg) = "ok")
    => /\ call.outcome = "return"
       /\ w.sens_val_calib = Some(x_mods)
       /\ w.weights = Some([m \in x_mods |->
              Rat(Cardinality(Where(x_arg.v, m)), Len(x_arg.v))])
       /\ \E eps \in [DOMAIN y_arg.v -> Jitter] :
             \A m \in x_mods :
                /\ w.ecdf[m] = Sample(y_arg.v, x_arg.v, eps, m)
                /\ w.eqf[m] = Sample(y_arg.v, x_arg.v, eps, m)

\* C1, second half: on a fitted instance, transform with epsilon = 0 of
\* test data whose modalities were calibrated returns, for the individual i
\* of modality m, the barycenter over the test modalities
C1_ReturnsBarycenter ==
    (/\ IsCall("Wasserstein.transform")
     /\ call.args.epsilon = 0
     /\ _check_shape(y_arg, x_arg) = "ok"
     /\ Fitted(w)
     /\ x_mods \subseteq Get(w.sens_val_calib))
    => /\ call.outcome = "return"
       /\ \E eps \in [DOMAIN y_arg.v -> Jitter] :
             \A i \in DOMAIN y_arg.v :
                call.value[i] =
                    Barycenter(Get(w.weights), w.ecdf, w.eqf, x_mods,
                               x_arg.v[i], y_arg.v[i], eps[i])

\* C1: in Wasserstein.transform with epsilon = 0, every test individual of
\* modality m gets the sum over the test modalities m2 of
\* weight[m2] * EQF[m2](ECDF[m](label + jitter)), on the tables fit stored.
C1_Claim == C1_FitStoresTables /\ C1_ReturnsBarycenter

\* the checks of MultiWasserStein.transform pass the epsilon list of the call
EpsilonOfCall ==
    IF IsNone(call.args.epsilon)
    THEN IF x_arg.ndim = 1 THEN <<0>> ELSE [k \in 1..Len(x_arg.cols) |-> 0]
    ELSE Get(call.args.epsilon)

SizeAgrees ==
    Len(EpsilonOfCall) = (IF x_arg.ndim = 1 THEN 1 ELSE Len(x_arg.cols))

\* what the adjuster with the tables (weight, ecdf, eqf) makes of the vector
\* v on the attribute column c with epsilon e/EpsDen and the draws eps
Adjusted(weight, ecdf, eqf, v, c, e, eps) ==
    [i \in DOMAIN v |->
        RAdd(RMul(Rat(EpsDen - e, EpsDen),
                  Barycenter(weight, ecdf, eqf, {c[j] : j \in DOMAIN c},
                             c[i], v[i], eps[i])),
             RMul(Rat(e, EpsDen), v[i]))]

\* C2: MultiWasserStein.transform records the test labels under
\* "Base model", then stage i is the position-i adjuster applied with
\* epsilon[i] to stage i-1 on column i, and the last stage is returned.
C2_Claim ==
    /\ (IsCall("MultiWasserStein.transform") /\ SizeAgrees)
       => /\ BaseModel \in DOMAIN mw.y_fair_test
          /\ mw.y_fair_test[BaseModel] = y_arg.v
    /\ (IsCall("MultiWasserStein.transform") /\ call.outcome = "return")
       => /\ \A i \in 1..Len(x_arg.cols) :
               \E eps \in [1..x_arg.rows -> Jitter] :
                  mw.y_fair_test[i] =
                     Adjusted(Get(mw.weights_all[i]), mw.ecdf_all[i],
                              mw.eqf_all[i], mw.y_fair_test[i - 1],
                              x_arg.cols[i], EpsilonOfCall[i], eps)
          /\ call.value = mw.y_fair_test[Len(x_arg.cols)]

\* a matrix of at least two rows and one column in which every modality of
\* every column has at least two observations
Calibratable(x) ==
    /\ x.ndim = 2
    /\ x.rows >= 2
    /\ Len(x.cols) >= 1
    /\ \A k \in DOMAIN x.cols : \A i \in 1..x.rows :
          Cardinality(Where(x.cols[k], x.cols[k][i])) >= 2

\* position i and every later one hold the tables fitted on the vector v
\* and its column, v moving on through each adjuster with epsilon = 0
RECURSIVE FittedInOrder(_, _, _, _)
FittedInOrder(m, v, x, i) ==
    \/ i > Len(x.cols)
    \/ /\ i \in DOMAIN m.sens_val_calib_all
       /\ m.sens_val_calib_all[i] = Some({x.cols[i][j] : j \in 1..x.rows})
       /\ m.weights_all[i] =
             Some([mod \in {x.cols[i][j] : j \in 1..x.rows} |->
                     Rat(Cardinality(Where(x.cols[i], mod)), x.rows)])
       /\ \E eps \in [1..x.rows -> Jitter] :
             /\ \A mod \in {x.cols[i][j] : j \in 1..x.rows} :
                   /\ m.ecdf_all[i][mod] = Sample(v, x.cols[i], eps, mod)
                   /\ m.eqf_all[i][mod] = Sample(v, x.cols[i], eps, mod)
             /\ \E eps0 \in [1..x.rows -> Jitter] :
                   FittedInOrder(m,
                       Adjusted(Get(m.weights_all[i]), m.ecdf_all[i],
                                m.eqf_all[i], v, x.cols[i], 0, eps0),
                       x, i + 1)

\* C3: MultiWasserStein.fit goes through the columns in order; column i is
\* fitted on the current calibration vector (labels_calib, then the output
\* of column i-1's adjuster with epsilon = 0) and stored under position i.
C3_Claim ==
    (IsCall("MultiWasserStein.fit") /\ Calibratable(x_arg))
    => /\ call.outcome = "return"
       /\ FittedInOrder(mw, y_arg.v, x_arg, 1)

\* the test input passes the epsilon, shape and modality checks of transform
PassesValidation ==
    /\ call.args.epsilon >= 0
    /\ call.args.epsilon <= EpsDen
    /\ _check_shape(y_arg, x_arg) = "ok"
    /\ \/ IsNone(w.sens_val_calib) /\ x_mods = {}
       \/ Fitted(w) /\ x_mods \subseteq Get(w.sens_val_calib)

\* C4: for a test input that passes validation, Wasserstein.transform
\* returns (1-epsilon)*fair_value + epsilon*original_value elementwise;
\* epsilon = 0 gives the fair vector and epsilon = 1 the test labels.
C4_Claim ==
    (IsCall("Wasserstein.transform") /\ PassesValidation)
    => /\ call.outcome = "return"
       /\ \E eps \in [DOMAIN y_arg.v -> Jitter] :
             call.value =
                Adjusted(Get(w.weights), w.ecdf, w.eqf, y_arg.v, x_arg.v,
                         call.args.epsilon, eps)
       /\ call.args.epsilon = EpsDen => call.value = y_arg.v

\* the MultiWasserStein instance holds fitted tables for the columns of x,
\* and the modalities of every column of x were calibrated
FittedFor(m, x) ==
    \A i \in 1..Len(x.cols) :
       /\ i \in DOMAIN m.sens_val_calib_all
       /\ Fitted([sens_val_calib |-> m.sens_val_calib_all[i],
                  weights |-> m.weights_all[i],
                  ecdf |-> m.ecdf_all[i], eqf |-> m.eqf_all[i]])
       /\ {x.cols[i][j] : j \in 1..x.rows}
             \subseteq Get(m.sens_val_calib_all[i])

\* C5: on a fitted adjuster, MultiWasserStein.transform(y, x, [1,...,1])
\* returns y, and every stage of the recorded trace equals y.
C5_Claim ==
    /\ (IsCall("MultiWasserStein.fit") /\ Calibratable(x_arg))
       => call.outcome = "return"
    /\ (/\ IsCall("MultiWasserStein.transform")
        /\ x_arg.ndim = 2
        /\ Len(x_arg.cols) >= 1
        /\ call.args.epsilon = Some([k \in 1..Len(x_arg.cols) |-> EpsDen])
        /\ FittedFor(mw, x_arg))
       => /\ call.outcome = "return"
          /\ call.value = y_arg.v
          /\ \A s \in 0..Len(x_arg.cols) : mw.y_fair_test[s] = y_arg.v

\* the sum of the counts behind the weights of the finished _get_weights call
CountsOfCall == [m \in x_mods |-> RInt(Cardinality(Where(x_arg.v, m)))]

WeightsAreShares ==
    /\ DOMAIN call.value = x_mods
    /\ \A m \in x_mods :
          call.value[m] = Rat(Cardinality(Where(x_arg.v, m)), Len(x_arg.v))
    /\ RSum(CountsOfCall, x_mods) = RInt(Len(x_arg.v))

\* the distance of two vectors of equal length: the sum of |a[i] - b[i]|
Distance(a, b) ==
    RSum([i \in DOMAIN a |-> RAbs(RSub(a[i], b[i]))], DOMAIN a)

\* every modality of the attribute vector v has two observations or more
TwoOfEachIn(v) == \A i \in DOMAIN v : Cardinality(Where(v, v[i])) >= 2

\* every modality of the attribute vector of the call has two observations
\* or more
TwoOfEach == \A m \in x_mods : Cardinality(Where(x_arg.v, m)) >= 2

\* C6: a fit call on well-shaped data with two observations or more of
\* every modality returns and leaves the instance fitted; on that fitted
\* attribute a transform call that passes the epsilon, shape and modality
\* checks returns, and the distance of its output to the unadjusted test
\* labels is at most the distance of the output that the same tables, test
\* data and draws give at any larger epsilon up to 1.
C6_Claim ==
    /\ (/\ IsCall("Wasserstein.fit")
        /\ _check_shape(y_arg, x_arg) = "ok"
        /\ x_arg.v # <<>>
        /\ TwoOfEach)
       => /\ call.outcome = "return"
          /\ Fitted(w)
    /\ (IsCall("Wasserstein.transform") /\ PassesValidation /\ Fitted(w))
       => /\ call.outcome = "return"
          /\ \E eps \in [DOMAIN y_arg.v -> Jitter] :
                /\ call.value =
                      Adjusted(Get(w.weights), w.ecdf, w.eqf, y_arg.v,
                               x_arg.v, call.args.epsilon, eps)
                /\ \A e2 \in call.args.epsilon..EpsDen :
                      RLe(Distance(call.value, y_arg.v),
                          Distance(Adjusted(Get(w.weights), w.ecdf, w.eqf,
                                            y_arg.v, x_arg.v, e2, eps),
                                   y_arg.v))

\* C7 as stated: for every calibration attribute vector the weights of
\* _get_weights are count(modality)/total and sum to 1.
C7_Original ==
    IsCall("BaseHelper._get_weights")
    => WeightsAreShares /\ RSum(call.value, x_mods) = RInt(1)

\* C7, amended: for every calibration attribute vector with at least one
\* observation the weights of _get_weights are count(modality)/total and
\* sum to 1 (a vector of no observation has no modality and no weight).
C7_Amended ==
    (IsCall("BaseHelper._get_weights") /\ Len(x_arg.v) >= 1)
    => WeightsAreShares /\ RSum(call.value, x_mods) = RInt(1)

\* C7 witness: weights were computed for a vector of two modalities
C7_Witness ==
    /\ IsCall("BaseHelper._get_weights")
    /\ Cardinality(x_mods) >= 2
    /\ RSum(call.value, x_mods) = RInt(1)

\* C8: after fit on the modalities S, transform raises the unseen-modality
\* error when a test modality is not in S, and does not raise it when the
\* test modalities are a non-empty subset of S.
C8_Claim ==
    /\ (IsCall("Wasserstein.fit") /\ _check_shape(y_arg, x_arg) = "ok")
       => call.outcome = "return" /\ w.sens_val_calib = Some(x_mods)
    /\ (/\ IsCall("Wasserstein.transform")
        /\ call.args.epsilon >= 0
        /\ call.args.epsilon <= EpsDen
        /\ _check_shape(y_arg, x_arg) = "ok"
        /\ ~IsNone(w.sens_val_calib))
       => (call.outcome = "UnseenModalityError"
             <=> ~(x_mods \subseteq Get(w.sens_val_calib)))

\* C9: Wasserstein.transform fails with the range error exactly for
\* epsilon < 0 or epsilon > 1 (0 and 1 are accepted), and the epsilon check
\* runs first: on a range error no other check ran and nothing was computed.
C9_EpsilonCheckedFirst ==
    IsCall("Wasserstein.transform")
    => /\ call.outcome = "RangeError"
             <=> (call.args.epsilon < 0 \/ call.args.epsilon > EpsDen)
       /\ Head(call.checks) = "_check_epsilon"
       /\ call.outcome = "RangeError"
             => call.checks = <<"_check_epsilon">> /\ call.value = <<>>
       /\ call.outcome # "RangeError" => Len(call.checks) >= 2

\* C9 witness: an out-of-range epsilon together with a label argument that
\* is no array was answered with the range error
C9_Witness ==
    /\ IsCall("Wasserstein.transform")
    /\ call.args.epsilon > EpsDen
    /\ ~y_arg.arr
    /\ call.outcome = "RangeError"

\* C10: MultiWasserStein.transform fails with the size-mismatch error
\* whenever the epsilon list and the attribute columns (1 for a 1-D array)
\* differ in number, before the "Base model" stage is recorded.
C10_Claim ==
    (IsCall("MultiWasserStein.transform") /\ ~SizeAgrees)
    => /\ call.outcome = "SizeMismatchError"
       /\ \A k \in DOMAIN call.checks : call.checks[k] # "Base model"

\* the number of attribute columns of a matrix argument (1 for a 1-D array)
Columns(x) == IF x.ndim = 1 THEN 1 ELSE ncols(x)

\* the call of MultiWasserStein.transform that starts in this step
StartsTransform ==
    call.op = "idle" /\ call'.op = "MultiWasserStein.transform"

\* the call of MultiWasserStein.fit that starts in this step is given a
\* calibratable matrix
StartsFit ==
    /\ call.op = "idle"
    /\ call'.op = "MultiWasserStein.fit"
    /\ Calibratable(call'.args.x)

C12_Claim ==
    /\ (IsCall("MultiWasserStein.fit") /\ Calibratable(x_arg))
       => /\ call.outcome = "return"
          /\ FittedFor(mw, x_arg)
    /\ (/\ IsCall("MultiWasserStein.transform")
        /\ x_arg.ndim = 2
        /\ ncols(x_arg) >= 1
        /\ SizeAgrees
        /\ FittedFor(mw, x_arg))
       => call.outcome = "return"
    /\ (IsCall("MultiWasserStein.transform") /\ call.outcome = "return")
       => /\ DOMAIN get_sequential_fairness(mw) = 0..Columns(x_arg)
          /\ get_sequential_fairness(mw)[BaseModel] = y_arg.v
          /\ get_sequential_fairness(mw)[Columns(x_arg)] = call.value

\* k!
RECURSIVE Factorial(_)
Factorial(k) == IF k <= 0 THEN 1 ELSE k * Factorial(k - 1)

\* the element s of a key is the column index i: a number equal to i (the
\* string 'i' is not)
IsIndex(s, i) == s.t \in {"int", "float"} /\ s.v = i

\* the key is a permutation of range(k)
IsPermutationKey(key, k) ==
    /\ DOMAIN key = 1..k
    /\ \A i \in 0..(k - 1) : \E j \in 1..k : IsIndex(key[j], i)

\* C13: for an attribute matrix of k columns permutations_cols returns k!
\* entries of pairwise distinct keys, every key a permutation of range(k),
\* a k-tuple of the integer column indices.
C13_Claim ==
    IsCall("permutations_cols")
    => /\ call.outcome = "return"
       /\ Cardinality(DOMAIN call.value) = Factorial(ncols(x_arg))
       /\ \A key \in DOMAIN call.value :
             IsPermutationKey(key, ncols(x_arg))

\* C14: under every ordering key p that permutations_cols returns, the
\* stored matrix has the rows of the input, and its column j is the original
\* column p[j] for every position j.
C14_Claim ==
    (IsCall("permutations_cols") /\ call.outcome = "return")
    => \A key \in DOMAIN call.value :
          /\ DOMAIN call.value[key] = 1..x_arg.rows
          /\ \A r \in 1..x_arg.rows :
                /\ DOMAIN call.value[key][r] = 1..ncols(x_arg)
                /\ \A j \in 1..ncols(x_arg) :
                      \E i \in 0..(ncols(x_arg) - 1) :
                         /\ IsIndex(key[j], i)
                         /\ call.value[key][r][j] =
                               Scalar(x_arg.dtype, x_arg.cols[i + 1][r])

\* the trace a freshly constructed MultiWasserStein leaves when it is fitted
\* on the calibration rows and then transforms the test rows stored under
\* the ordering key, for the draws d = <<fit draws, transform draws>>
FreshTrace(key, epsilon, d) ==
    LET n == Len(key)
        calib == permutations_cols(call.args.x).value
        test == permutations_cols(call.args.x_test).value
        fitted == MultiWasserStein_fit_on(MultiWasserStein_init, call.args.y,
                      np_array(calib[key], n), d[1])[1]
    IN  get_sequential_fairness(
            MultiWasserStein_transform_on(fitted, call.args.y_test,
                np_array(test[key], n), epsilon, d[2])[1])

\* epsilon taken in the order of the key
EpsilonUnder(key) ==
    IF IsNone(call.args.epsilon) THEN None
    ELSE Some([j \in DOMAIN key |-> Get(call.args.epsilon)[key[j].v + 1]])

\* C15: calculate_perm_wst returns one trace per ordering; the trace of the
\* ordering p is the one of a fresh MultiWasserStein fitted and transformed
\* on the matrices permuted by p, its stage at position j named after the
\* original column p[j], the vectors of the stages unchanged.
C15_Claim ==
    (/\ IsCall("calculate_perm_wst")
     /\ Calibratable(x_arg)
     /\ call.args.x_test = x_arg)
    => /\ call.outcome = "return"
       /\ DOMAIN call.value =
             {perm_keys(x_arg)[k] : k \in DOMAIN perm_keys(x_arg)}
       /\ \A key \in DOMAIN call.value :
             \E d \in loop_draws(MultiWasserStein_init, x_arg)
                         \X loop_draws(MultiWasserStein_init, x_arg) :
                LET fresh == FreshTrace(key, EpsilonUnder(key), d)
                IN  /\ DOMAIN call.value[key] =
                          {Base_model} \cup
                          {sens_var(key[j]) : j \in DOMAIN key}
                    /\ call.value[key][Base_model] = fresh[BaseModel]
                    /\ \A j \in DOMAIN key :
                          call.value[key][sens_var(key[j])] = fresh[j]

\* the stage name is 'Base model' or 'sens_var_<i>' with i in 1..k, so that
\* int(name[9:]) is the 1-indexed position of an attribute
ConformingName(name, k) ==
    \/ name = Base_model
    \/ /\ ~name.base
       /\ ~name.point
       /\ name.digits \in 1..k

\* the names of a dict given as the list of its items
NamesOf(items) == {items[i].name : i \in DOMAIN items}

\* C16: every stage-name-keyed mapping handed on to the plots names the
\* unadjusted stage "Base model" and the attribute stages "sens_var_<i>",
\* i counting from 1: the trace of MultiWasserStein, the relabelled traces
\* of calculate_perm_wst, and the unfairness and performance dictionaries,
\* which carry the names of the trace they are computed from.
C16_Claim ==
    /\ \A i \in DOMAIN get_sequential_fairness(mw) :
          ConformingName(stage_name(i), Cardinality(DOMAIN mw.y_fair_test))
    /\ (IsCall("calculate_perm_wst") /\ call.outcome = "return")
       => \A key \in DOMAIN call.value : \A name \in DOMAIN call.value[key] :
             ConformingName(name, Len(key))
    /\ (IsCall("unfairness_multi") /\ call.outcome = "return")
       => /\ NamesOf(call.value) = NamesOf(call.args.y_fair_dict)
          /\ \A name \in NamesOf(call.value) :
                ConformingName(name, Len(call.value) - 1)
    /\ (IsCall("risk_multi") /\ call.args.y_fair_dict # <<>>
                             /\ Len(call.args.y_true) >= 1)
       => /\ call.outcome = "return"
          /\ NamesOf(call.value) = NamesOf(call.args.y_fair_dict)

\* some modality of the attribute vector v is observed exactly once
HasSingleton(v) ==
    \E mod \in _get_mod(v) : Cardinality(_get_loc(v)[mod]) = 1

\* C18: a fit on calibration data in which some modality has exactly one
\* observation is rejected with InsufficientDataError: Wasserstein.fit on
\* well-shaped inputs whose attribute vector has such a modality, and
\* MultiWasserStein.fit on 2 observations or more when some column has one.
C18_Claim ==
    /\ (/\ IsCall("Wasserstein.fit")
        /\ _check_shape(y_arg, x_arg) = "ok"
        /\ HasSingleton(x_arg.v))
       => call.outcome = "InsufficientDataError"
    /\ (/\ IsCall("MultiWasserStein.fit")
        /\ x_arg.ndim = 2
        /\ len(x_arg) >= 2
        /\ \E i \in 1..ncols(x_arg) : HasSingleton(x_arg.cols[i]))
       => call.outcome = "InsufficientDataError"

\* the inputs the claim names: one of them is not an array, their lengths
\* differ, or some label is not a float
IllShaped(y, x) ==
    \/ ~y.arr
    \/ ~x.arr
    \/ Len(y.v) # Len(x.v)
    \/ (y.v # <<>> /\ ~y.flt)

\* C19: Wasserstein.fit on an input that is not an array, on labels and
\* attributes of different lengths, or on a label that is not a float,
\* raises ShapeError from its first step, and the adjuster's modalities,
\* weights, ECDF and EQF tables are what they were before the call.
C19_ShapeErrorKeepsState ==
    [][(call.op = "idle" /\ call'.op = "Wasserstein.fit"
           /\ IllShaped(call'.args.y, call'.args.x))
       => /\ call'.outcome = "ShapeError"
          /\ call'.checks = <<"_check_shape">>
          /\ w' = w]_<<w, mw, call>>

C19_Witness ==
    /\ IsCall("Wasserstein.fit")
    /\ y_arg.arr /\ x_arg.arr
    /\ Len(y_arg.v) = Len(x_arg.v)
    /\ Len(y_arg.v) >= 1
    /\ ~y_arg.flt
    /\ call.outcome = "ShapeError"

CalibrationState(single, multi) ==
    <<single.sens_val_calib, single.weights, single.ecdf, single.eqf,
      multi.sens_val_calib_all, multi.weights_all, multi.ecdf_all,
      multi.eqf_all>>

Distinct(sample) ==
    \A i, j \in DOMAIN sample : sample[i] = sample[j] => i = j

\* the value of the sample with exactly i smaller values in the sample
Smallest(sample, i) ==
    CHOOSE v \in {sample[k] : k \in DOMAIN sample} :
        Cardinality({k \in DOMAIN sample : RLt(sample[k], v)}) = i

\* C23: for a sample of n >= 2 distinct values in any order, the EQF at
\* the quantile i/(n-1) returns exactly the i-th smallest value of the
\* sample, for every i in 0..n-1: the minimum at 0 and the maximum at 1.
C23_EQFRoundTrip ==
    (IsCall("EQF") /\ Distinct(call.args.sample_data))
    => \A i \in 0..(Len(call.args.sample_data) - 1) :
          call.args.value_ = Rat(i, Len(call.args.sample_data) - 1)
          => /\ call.outcome = "return"
             /\ call.value = Smallest(call.args.sample_data, i)

\* the output of the docstring's example in thousandths, to four decimals
example_reference == <<Rat(2606, 10), Rat(6914, 10), Rat(6894, 10), Rat(2666, 10)>>

\* C24: the example of the docstring (fit on the 6 calibration labels, then
\* transform of the 4 test labels with epsilon = 0.2) returns, for every
\* draw of the noise, 4 values within 0.001 of 0.2606, 0.6914, 0.6894, 0.2666.
C24_Claim ==
    IsCall("Wasserstein.example")
    => /\ call.outcome = "return"
       /\ DOMAIN call.value = 1..4
       /\ \A i \in 1..4 :
             RLe(RAbs(RSub(call.value[i], example_reference[i])), RInt(1))

\* the final stage of the trace of an ordering: the stage named after the
\* column the ordering puts last
FinalOf(key) == call.value[key][sens_var(key[Len(key)])]

\* C25: on the dataset of two correlated attributes calculate_perm_wst returns
\* the traces of both orderings, and the final predictions of the ordering
\* (0, 1) differ from those of the ordering (1, 0).
C25_Claim ==
    IsCall("calculate_perm_wst.correlated")
    => /\ call.outcome = "return"
       /\ \E key1, key2 \in DOMAIN call.value :
             key1 # key2 /\ FinalOf(key1) # FinalOf(key2)

\* C27: _check_metric applied to labels that are all 0 or 1 only advises:
\* the call returns and raises no exception.
C27_Claim ==
    (/\ IsCall("_check_metric")
     /\ \A i \in DOMAIN call.args.y_true :
           call.args.y_true[i] \in {RInt(0), RInt(1)})
    => call.outcome = "return"

C28_Claim ==
    (IsCall("Wasserstein.fit") /\ _check_shape(y_arg, x_arg) = "ok")
    => /\ call.outcome = "return"
       /\ DOMAIN w.ecdf = x_mods
       /\ DOMAIN w.eqf = x_mods
       /\ DOMAIN Get(w.weights) = x_mods

\* C29: calculate_perm_wst called with an epsilon list returns, and in the
\* trace of every ordering p the stage named after the original column p[j]
\* is the stage j of a fresh MultiWasserStein run on the permuted matrices
\* with the epsilon list [epsilon[p[1]], .., epsilon[p[n]]].
C29_Claim ==
    (/\ IsCall("calculate_perm_wst")
     /\ ~IsNone(call.args.epsilon)
     /\ Calibratable(x_arg)
     /\ call.args.x_test = x_arg)
    => /\ call.outcome = "return"
       /\ \A key \in DOMAIN call.value :
             \E d \in loop_draws(MultiWasserStein_init, x_arg)
                         \X loop_draws(MultiWasserStein_init, x_arg) :
                \A j \in DOMAIN key :
                   call.value[key][sens_var(key[j])] =
                       FreshTrace(key, EpsilonUnder(key), d)[j]

\* C30: a fit call on arrays of equal length, with float labels and two
\* observations or more of every modality, returns and leaves tables of two
\* points or more; a transform call on such an instance that passes the
\* epsilon, shape and modality checks returns a vector as long as its test
\* labels, no quantile falling outside an EQF.
C30_Claim ==
    /\ (/\ IsCall("Wasserstein.fit")
        /\ _check_shape(y_arg, x_arg) = "ok"
        /\ TwoOfEach)
       => /\ call.outcome = "return"
          /\ Fitted(w)
    /\ (/\ IsCall("Wasserstein.transform")
        /\ _check_epsilon(call.args.epsilon) = "ok"
        /\ _check_shape(y_arg, x_arg) = "ok"
        /\ Fitted(w)
        /\ x_mods \subseteq Get(w.sens_val_calib))
       => /\ call.outcome = "return"
          /\ Len(call.value) = Len(y_arg.v)

====
